---- MODULE Spec2Model ----
(***************************************************************************)
(* The order / review / payment / consultation / document services of the  *)
(* medical second-opinion marketplace, as state machines over the entity   *)
(* store.  Every service method is one action; the mongoose save hooks it  *)
(* triggers are part of that action.                                       *)
(***************************************************************************)
EXTENDS Integers, Sequences, FiniteSets, TLC

VARIABLES orders, reviews, payments, documents, consultations,
          clock, res, notified, completedOnce, calls, notificationsUp

vars == <<orders, reviews, payments, documents, consultations,
          clock, res, notified, completedOnce, calls, notificationsUp>>

(* ------------------------------ bounds -------------------------------- *)
MaxOrders == 1
MaxReviews == 2
MaxPayments == 2
MaxDocuments == 1
MaxConsultations == 2
MaxClock == 2
MaxAmount == 2
MaxPaid == 4
MaxFee == 1
MaxDownloads == 2
MaxDate == 4
MaxHistory == 2
MaxCalls == 2

OrderIds == 1..MaxOrders
ReviewIds == 1..MaxReviews
PaymentIds == 1..MaxPayments
DocumentIds == 1..MaxDocuments
ConsultationIds == 1..MaxConsultations
CallIds == 1..MaxCalls

(* ------------------------------ users --------------------------------- *)
\* The User collection is not written by any modelled operation.
NULL == "null"
Users == {"c1", "c2", "r1", "r2", "r3"}
UserIdArgs == Users \cup {"ghost"}

UserRole(u) == IF u \in {"r1", "r2", "r3"} THEN "REVIEWER" ELSE "CUSTOMER"

UserIsActive(u) == u # "r3"

isReviewer(u) == UserRole(u) = "REVIEWER"

(* ------------------------------ enums --------------------------------- *)
OrderStatus == {"PENDING_REVIEW", "ASSIGNED", "IN_PROGRESS", "UNDER_REVIEW",
                "COMPLETED", "CANCELLED", "REFUNDED"}

PaymentStatus == {"PENDING", "PROCESSING", "COMPLETED", "FAILED", "REFUNDED",
                  "CANCELLED"}

ConsultationStatus == {"SCHEDULED", "IN_PROGRESS", "COMPLETED", "CANCELLED",
                       "RESCHEDULED"}

(* --------------------------- result of a call -------------------------- *)
\* res records the last service call: its name, the id it addressed, its
\* string argument (a user id or a status) and numeric argument, and the
\* error kind it ended with ("OK" when it returned).  notified is the list
\* of notifications that call created.
Result(op, id, sarg, narg, err) ==
    [op |-> op, id |-> id, sarg |-> sarg, narg |-> narg, err |-> err]

Notice(userId, title) == [userId |-> userId, title |-> title]

\* The end of an OrderService / ReviewService call whose primary write is
\* done: the awaited Notification.create of the notices.  When the
\* notification collection cannot be written, the create rejects and the
\* call throws; nothing catches it and nothing undoes the primary write.
Delivered_Swallowed(r, notices) == res' = r /\ notified' = notices

Delivered(r, notices) ==
    IF notificationsUp \/ notices = <<>>
    THEN res' = r /\ notified' = notices
    ELSE res' = [r EXCEPT !.err = "NotificationFailed"] /\ notified' = <<>>

(* ------------------------------ Order ---------------------------------- *)
NoOrder ==
    [exists |-> FALSE, customerId |-> NULL, reviewerId |-> NULL,
     status |-> "PENDING_REVIEW", totalAmount |-> 0, paidAmount |-> 0,
     assignedAt |-> 0, completedAt |-> 0]

\* new Order(orderData): the schema defaults.
NewOrder(customerId, totalAmount) ==
    [exists |-> TRUE, customerId |-> customerId, reviewerId |-> NULL,
     status |-> "PENDING_REVIEW", totalAmount |-> totalAmount,
     paidAmount |-> 0, assignedAt |-> 0, completedAt |-> 0]

\* OrderSchema.pre('save'): timestamps filled in when missing.
OrderPreSave(o) ==
    [o EXCEPT
       !.assignedAt = IF o.reviewerId # NULL /\ o.assignedAt = 0
                      THEN clock ELSE @,
       !.completedAt = IF o.status = "COMPLETED" /\ o.completedAt = 0
                       THEN clock ELSE @]

FreeIds(store) == {i \in DOMAIN store : ~store[i].exists}

NextId(store) == CHOOSE i \in FreeIds(store) : \A j \in FreeIds(store) : i <= j

\* A canBeAssigned that lets every order be assigned.
canBeAssigned_Always(o) == TRUE

canBeAssigned(o) == o.status = "PENDING_REVIEW"

ValidReviewer(u) == u \in Users /\ UserIsActive(u) /\ isReviewer(u)

(* --------------------------- OrderService ------------------------------ *)
createOrder(customerId, totalAmount) ==
    /\ FreeIds(orders) # {}
    /\ IF customerId \notin Users
       THEN /\ res' = Result("createOrder", 0, customerId, totalAmount, "NotFound")
            /\ notified' = <<>>
            /\ UNCHANGED orders
       ELSE LET id == NextId(orders) IN
            /\ orders' = [orders EXCEPT
                            ![id] = OrderPreSave(NewOrder(customerId, totalAmount))]
            /\ Delivered(Result("createOrder", id, customerId, totalAmount, "OK"),
                         <<Notice(customerId, "Order Created")>>)
    /\ UNCHANGED <<reviews, payments, documents, consultations, clock, calls, completedOnce,
                   notificationsUp>>

assignReviewer(orderId, reviewerId) ==
    /\ UNCHANGED <<reviews, payments, documents, consultations, clock, calls, completedOnce,
                   notificationsUp>>
    /\ IF ~ValidReviewer(reviewerId)
       THEN /\ res' = Result("assignReviewer", orderId, reviewerId, 0, "InvalidReviewer")
            /\ notified' = <<>>
            /\ UNCHANGED orders
       ELSE IF ~orders[orderId].exists
       THEN /\ res' = Result("assignReviewer", orderId, reviewerId, 0, "NotFound")
            /\ notified' = <<>>
            /\ UNCHANGED orders
       ELSE IF ~canBeAssigned(orders[orderId])
       THEN /\ res' = Result("assignReviewer", orderId, reviewerId, 0, "InvalidState")
            /\ notified' = <<>>
            /\ UNCHANGED orders
       ELSE /\ orders' = [orders EXCEPT ![orderId] =
                            OrderPreSave([@ EXCEPT !.reviewerId = reviewerId,
                                                   !.status = "ASSIGNED",
                                                   !.assignedAt = clock])]
            /\ Delivered(Result("assignReviewer", orderId, reviewerId, 0, "OK"),
                         <<Notice(orders[orderId].customerId, "Order Assigned"),
                           Notice(reviewerId, "New Order Assignment")>>)

updateOrderStatus(orderId, status) ==
    /\ UNCHANGED <<reviews, payments, documents, consultations, clock, calls, completedOnce,
                   notificationsUp>>
    /\ IF ~orders[orderId].exists
       THEN /\ res' = Result("updateOrderStatus", orderId, status, 0, "NotFound")
            /\ notified' = <<>>
            /\ UNCHANGED orders
       ELSE /\ orders' = [orders EXCEPT ![orderId] =
                            OrderPreSave([@ EXCEPT
                               !.status = status,
                               !.completedAt = IF status = "COMPLETED"
                                               THEN clock ELSE @])]
            /\ Delivered(Result("updateOrderStatus", orderId, status, 0, "OK"),
                         IF orders[orderId].status # status
                         THEN <<Notice(orders[orderId].customerId,
                                       "Order Status Updated")>>
                         ELSE <<>>)

\* updates is Partial<IOrder>, here a record of the fields it carries.
\* findByIdAndUpdate with runValidators checks the values it sets (paidAmount
\* has min 0) and runs no save hook; it returns null for an unknown id.
OrderUpdates ==
    {[paidAmount |-> MaxAmount], [paidAmount |-> -1],
     [status |-> "CANCELLED"], [reviewerId |-> "r2"]}

updateOrder(orderId, updates) ==
    /\ UNCHANGED <<reviews, payments, documents, consultations, clock, calls,
                   completedOnce, notificationsUp>>
    /\ notified' = <<>>
    /\ IF ~orders[orderId].exists
       THEN /\ res' = Result("updateOrder", orderId, NULL, 0, "OK")
            /\ UNCHANGED orders
       ELSE IF "paidAmount" \in DOMAIN updates /\ updates.paidAmount < 0
       THEN /\ res' = Result("updateOrder", orderId, NULL, 0, "ValidationError")
            /\ UNCHANGED orders
       ELSE /\ orders' = [orders EXCEPT ![orderId] =
                            [f \in DOMAIN @ |-> IF f \in DOMAIN updates
                                                THEN updates[f] ELSE @[f]]]
            /\ res' = Result("updateOrder", orderId, NULL, 0, "OK")

CannotCancel_Never(o) == FALSE

CannotCancel(o) == o.status = "COMPLETED"

cancelOrder(orderId) ==
    /\ UNCHANGED <<reviews, payments, documents, consultations, clock, calls, completedOnce,
                   notificationsUp>>
    /\ IF ~orders[orderId].exists
       THEN /\ res' = Result("cancelOrder", orderId, NULL, 0, "NotFound")
            /\ notified' = <<>>
            /\ UNCHANGED orders
       ELSE IF CannotCancel(orders[orderId])
       THEN /\ res' = Result("cancelOrder", orderId, NULL, 0, "InvalidState")
            /\ notified' = <<>>
            /\ UNCHANGED orders
       ELSE /\ orders' = [orders EXCEPT ![orderId] =
                            OrderPreSave([@ EXCEPT !.status = "CANCELLED"])]
            /\ Delivered(Result("cancelOrder", orderId, NULL, 0, "OK"),
                         <<Notice(orders[orderId].customerId, "Order Cancelled")>>)

(* ------------------------------ Review --------------------------------- *)
NoReview ==
    [exists |-> FALSE, orderId |-> 0, reviewerId |-> NULL, isComplete |-> FALSE]

\* ReviewSchema.post('save'): a complete review completes its order, by an
\* update that runs no Order save hook.
ReviewPostSave(r, os) ==
    IF r.isComplete /\ r.orderId \in DOMAIN os /\ os[r.orderId].exists
    THEN [os EXCEPT ![r.orderId] = [@ EXCEPT !.status = "COMPLETED",
                                             !.completedAt = clock]]
    ELSE os

(* --------------------------- ReviewService ----------------------------- *)
NotAssigned_Never(o, reviewerId) == FALSE

NotAssigned(o, reviewerId) == o.reviewerId = NULL \/ o.reviewerId # reviewerId

createReview(orderId, reviewerId) ==
    /\ FreeIds(reviews) # {}
    /\ UNCHANGED <<payments, documents, consultations, clock, calls, completedOnce,
                   notificationsUp>>
    /\ IF ~orders[orderId].exists
       THEN /\ res' = Result("createReview", 0, reviewerId, orderId, "NotFound")
            /\ notified' = <<>>
            /\ UNCHANGED <<orders, reviews>>
       ELSE IF NotAssigned(orders[orderId], reviewerId)
       THEN /\ res' = Result("createReview", 0, reviewerId, orderId, "NotAssigned")
            /\ notified' = <<>>
            /\ UNCHANGED <<orders, reviews>>
       ELSE IF reviewerId \notin Users \/ ~isReviewer(reviewerId)
       THEN /\ res' = Result("createReview", 0, reviewerId, orderId, "InvalidReviewer")
            /\ notified' = <<>>
            /\ UNCHANGED <<orders, reviews>>
       ELSE LET id == NextId(reviews)
                r == [exists |-> TRUE, orderId |-> orderId,
                      reviewerId |-> reviewerId, isComplete |-> FALSE]
            IN /\ reviews' = [reviews EXCEPT ![id] = r]
               /\ orders' = ReviewPostSave(r, orders)
               /\ Delivered(Result("createReview", id, reviewerId, orderId, "OK"),
                            <<Notice(orders[orderId].customerId, "Review Available")>>)

completeReview(id) ==
    /\ UNCHANGED <<payments, documents, consultations, clock, calls,
                   notificationsUp>>
    /\ notified' = <<>>
    /\ IF ~reviews[id].exists
       THEN /\ res' = Result("completeReview", id, NULL, 0, "NotFound")
            /\ UNCHANGED <<orders, reviews, completedOnce>>
       ELSE IF reviews[id].isComplete
       THEN /\ res' = Result("completeReview", id, NULL, 0, "AlreadyComplete")
            /\ UNCHANGED <<orders, reviews, completedOnce>>
       ELSE LET r == [reviews[id] EXCEPT !.isComplete = TRUE] IN
            /\ reviews' = [reviews EXCEPT ![id] = r]
            /\ orders' = ReviewPostSave(r, orders)
            /\ completedOnce' = completedOnce \cup {id}
            /\ res' = Result("completeReview", id, NULL, 0, "OK")

\* updates is Partial<IReview>: "true" / "false" carry an isComplete value,
\* "other" touches only fields that are not modelled.  findByIdAndUpdate
\* runs no save hook.
ReviewUpdates == {"true", "false", "other"}

updateReview(id, updates) ==
    /\ UNCHANGED <<orders, payments, documents, consultations, clock, calls, completedOnce,
                   notificationsUp>>
    /\ notified' = <<>>
    /\ IF ~reviews[id].exists
       THEN /\ res' = Result("updateReview", id, updates, 0, "NotFound")
            /\ UNCHANGED reviews
       ELSE /\ reviews' = [reviews EXCEPT ![id].isComplete =
                              IF updates = "other" THEN @ ELSE updates = "true"]
            /\ res' = Result("updateReview", id, updates, 0, "OK")

\* addReviewRating: findByIdAndUpdate of the ratings alone; it runs no save
\* hook and returns null for an unknown id.  validRatings says whether all
\* ratings are between 1 and 5.
addReviewRating(id, validRatings) ==
    /\ UNCHANGED <<orders, reviews, payments, documents, consultations, clock, calls,
                   completedOnce, notificationsUp>>
    /\ notified' = <<>>
    /\ res' = Result("addReviewRating", id, NULL, 0,
                     IF validRatings THEN "OK" ELSE "InvalidRating")

\* review.addTag / removeTag / addAttachment end in this.save(): the
\* post-save hook runs on the stored review, whose tags and attachments are
\* not modelled.
SaveStoredReview(op, id) ==
    /\ UNCHANGED <<reviews, payments, documents, consultations, clock, calls, completedOnce,
                   notificationsUp>>
    /\ notified' = <<>>
    /\ IF ~reviews[id].exists
       THEN /\ res' = Result(op, id, NULL, 0, "NotFound")
            /\ UNCHANGED orders
       ELSE /\ orders' = ReviewPostSave(reviews[id], orders)
            /\ res' = Result(op, id, NULL, 0, "OK")

addReviewTags(id) == SaveStoredReview("addReviewTags", id)

removeReviewTag(id) == SaveStoredReview("removeReviewTag", id)

addReviewAttachment(id) == SaveStoredReview("addReviewAttachment", id)

deleteReview(id) ==
    /\ UNCHANGED <<orders, payments, documents, consultations, clock, calls,
                   notificationsUp>>
    /\ notified' = <<>>
    /\ IF ~reviews[id].exists
       THEN /\ res' = Result("deleteReview", id, NULL, 0, "NotFound")
            /\ UNCHANGED <<reviews, completedOnce>>
       ELSE IF reviews[id].isComplete
       THEN /\ res' = Result("deleteReview", id, NULL, 0, "Conflict")
            /\ UNCHANGED <<reviews, completedOnce>>
       ELSE /\ reviews' = [reviews EXCEPT ![id] = NoReview]
            /\ completedOnce' = completedOnce \ {id}
            /\ res' = Result("deleteReview", id, NULL, 0, "OK")

(* ------------------------------ Payment -------------------------------- *)
\* fee, netAmount, refundAmount, processedAt: 0 stands for a value that is
\* unset (or 0: the hooks test these fields for truthiness only).
NoPayment ==
    [exists |-> FALSE, orderId |-> 0, amount |-> 0, status |-> "PENDING",
     fee |-> 0, netAmount |-> 0, refundAmount |-> 0, processedAt |-> 0]

\* new Payment(paymentData): the schema defaults (status PENDING, fee 0).
NewPayment(orderId, amount) ==
    [exists |-> TRUE, orderId |-> orderId, amount |-> amount,
     status |-> "PENDING", fee |-> 0, netAmount |-> 0, refundAmount |-> 0,
     processedAt |-> 0]

\* PaymentSchema.pre('save').
PaymentPreSave(p) ==
    [p EXCEPT
       !.netAmount = IF p.fee # 0 /\ p.netAmount = 0 THEN p.amount - p.fee
                     ELSE IF p.netAmount = 0 THEN p.amount
                     ELSE @,
       !.processedAt = IF p.status = "COMPLETED" /\ p.processedAt = 0
                       THEN clock ELSE @]

PaymentPostSaveOrders_None(p, os) == os

\* PaymentSchema.post('save'), the order it leaves: $inc of paidAmount when
\* the saved payment is COMPLETED.
PaymentPostSaveOrders(p, os) ==
    IF p.status = "COMPLETED" /\ os[p.orderId].exists
    THEN [os EXCEPT ![p.orderId].paidAmount = @ + p.amount]
    ELSE os

\* PaymentSchema.post('save'), the notifications it creates.
PaymentPostSaveNotices(p, os) ==
    IF ~os[p.orderId].exists THEN <<>>
    ELSE IF p.status = "COMPLETED"
    THEN <<Notice(os[p.orderId].customerId, "Payment Received")>>
    ELSE IF p.status = "FAILED"
    THEN <<Notice(os[p.orderId].customerId, "Payment Failed")>>
    ELSE <<>>

\* payment.save(): pre hook, store, post hook.
SavePayment(id, p) ==
    LET saved == PaymentPreSave(p) IN
    /\ payments' = [payments EXCEPT ![id] = saved]
    /\ orders' = PaymentPostSaveOrders(saved, orders)
    /\ notified' = PaymentPostSaveNotices(saved, orders)

PaymentFails(op, id, narg, err) ==
    /\ res' = Result(op, id, NULL, narg, err)
    /\ notified' = <<>>
    /\ UNCHANGED <<orders, payments>>

\* refundData.amount undefined.
NoAmount == -1

\* The refund does not fit the payment.
RefundExceeds_Never(refundAmount, p) == FALSE

RefundExceeds(refundAmount, p) == refundAmount > p.amount

(* --------------------------- PaymentService ---------------------------- *)
createPayment(orderId, amount) ==
    /\ FreeIds(payments) # {}
    /\ UNCHANGED <<reviews, documents, consultations, clock, calls, completedOnce,
                   notificationsUp>>
    /\ IF ~orders[orderId].exists
       THEN PaymentFails("createPayment", 0, amount, "NotFound")
       ELSE IF amount <= 0
       THEN PaymentFails("createPayment", 0, amount, "InvalidAmount")
       ELSE LET id == NextId(payments) IN
            /\ SavePayment(id, NewPayment(orderId, amount))
            /\ res' = Result("createPayment", id, NULL, amount, "OK")

\* data.fee is NoAmount when the completion data carries no fee.
completePayment(id, fee) ==
    /\ UNCHANGED <<reviews, documents, consultations, clock, calls, completedOnce,
                   notificationsUp>>
    /\ IF ~payments[id].exists
       THEN PaymentFails("completePayment", id, fee, "NotFound")
       ELSE IF payments[id].status = "COMPLETED"
       THEN PaymentFails("completePayment", id, fee, "AlreadyCompleted")
       ELSE /\ orders[payments[id].orderId].paidAmount + payments[id].amount <= MaxPaid
            /\ SavePayment(id, [payments[id] EXCEPT
                                  !.fee = IF fee = NoAmount THEN @ ELSE fee,
                                  !.status = "COMPLETED",
                                  !.processedAt = clock])
            /\ res' = Result("completePayment", id, NULL, fee, "OK")

failPayment(id) ==
    /\ UNCHANGED <<reviews, documents, consultations, clock, calls, completedOnce,
                   notificationsUp>>
    /\ IF ~payments[id].exists
       THEN PaymentFails("failPayment", id, 0, "NotFound")
       ELSE IF payments[id].status = "FAILED"
       THEN PaymentFails("failPayment", id, 0, "InvalidState")
       ELSE /\ SavePayment(id, [payments[id] EXCEPT !.status = "FAILED"])
            /\ res' = Result("failPayment", id, NULL, 0, "OK")

refundPayment(id, amount) ==
    /\ UNCHANGED <<reviews, documents, consultations, clock, calls, completedOnce,
                   notificationsUp>>
    /\ IF ~payments[id].exists
       THEN PaymentFails("refundPayment", id, amount, "NotFound")
       ELSE IF payments[id].status # "COMPLETED"
       THEN PaymentFails("refundPayment", id, amount, "InvalidState")
       ELSE LET p == payments[id]
                refundAmount == IF amount = NoAmount \/ amount = 0
                                THEN p.amount ELSE amount
                refunded == PaymentPreSave(
                               [p EXCEPT !.status = "REFUNDED",
                                         !.refundAmount = IF refundAmount # 0
                                                          THEN refundAmount
                                                          ELSE p.amount])
                o == orders[p.orderId]
            IN IF RefundExceeds(refundAmount, p)
               THEN PaymentFails("refundPayment", id, amount, "InvalidAmount")
               ELSE /\ payments' = [payments EXCEPT ![id] = refunded]
                    /\ res' = Result("refundPayment", id, NULL, amount, "OK")
                    /\ IF o.exists
                       THEN /\ orders' = [PaymentPostSaveOrders(refunded, orders)
                                            EXCEPT ![p.orderId] = OrderPreSave(
                                              [@ EXCEPT !.paidAmount =
                                                 IF @ - refundAmount > 0
                                                 THEN @ - refundAmount ELSE 0])]
                            /\ notified' = <<Notice(o.customerId, "Payment Refunded")>>
                       ELSE /\ orders' = orders
                            /\ notified' = <<>>

cancelPayment(id) ==
    /\ UNCHANGED <<reviews, documents, consultations, clock, calls, completedOnce,
                   notificationsUp>>
    /\ IF ~payments[id].exists
       THEN PaymentFails("cancelPayment", id, 0, "NotFound")
       ELSE IF payments[id].status # "PENDING"
       THEN PaymentFails("cancelPayment", id, 0, "InvalidState")
       ELSE /\ SavePayment(id, [payments[id] EXCEPT !.status = "CANCELLED"])
            /\ res' = Result("cancelPayment", id, NULL, 0, "OK")

retryFailedPayment(id) ==
    /\ UNCHANGED <<reviews, documents, consultations, clock, calls, completedOnce,
                   notificationsUp>>
    /\ IF ~payments[id].exists
       THEN PaymentFails("retryFailedPayment", id, 0, "NotFound")
       ELSE IF payments[id].status # "FAILED"
       THEN PaymentFails("retryFailedPayment", id, 0, "InvalidState")
       ELSE /\ SavePayment(id, [payments[id] EXCEPT !.status = "PENDING"])
            /\ res' = Result("retryFailedPayment", id, NULL, 0, "OK")

(* ------------------------------ Document ------------------------------- *)
NoDocument ==
    [exists |-> FALSE, orderId |-> 0, uploadedBy |-> NULL, isActive |-> FALSE,
     downloadCount |-> 0]

\* File sizes are counted in MiB.
MaxFileSizeMiB == 50

AllowedFileTypes == {"application/pdf", "image/png", "text/plain"}

FileTypeArgs == {"application/pdf", "APPLICATION/PDF", "video/mp4"}

\* fileType: { trim: true, lowercase: true }, applied when the document is
\* constructed, before the enum is validated.
NormalizeFileType(t) == IF t = "APPLICATION/PDF" THEN "application/pdf" ELSE t

FileSizeArgs == {49, 50, 51}

FileTooLarge_Never(fileSize) == FALSE

FileTooLarge(fileSize) == fileSize > MaxFileSizeMiB

\* The outcome of an upload also records the order and the fileType sent.
UploadResult(id, orderId, uploadedBy, fileSize, fileType, err) ==
    [op |-> "uploadDocument", id |-> id, sarg |-> uploadedBy, narg |-> fileSize,
     err |-> err, orderId |-> orderId, fileType |-> fileType]

UploadFails(orderId, uploadedBy, fileSize, fileType, err) ==
    /\ res' = UploadResult(0, orderId, uploadedBy, fileSize, fileType, err)
    /\ notified' = <<>>
    /\ UNCHANGED documents

DocumentFails(op, id, user, narg, err) ==
    /\ res' = Result(op, id, user, narg, err)
    /\ notified' = <<>>
    /\ UNCHANGED documents

\* The permission test of downloadDocument: TRUE when the caller is refused.
DownloadRefused(o, userId) ==
    /\ o.customerId # userId
    /\ (o.reviewerId # NULL /\ o.reviewerId # userId)

\* The permission test of deleteDocument: TRUE when the caller is refused.
DeleteRefused(d, o, userId) ==
    /\ d.uploadedBy # userId
    /\ o.customerId # userId
    /\ (o.reviewerId # NULL /\ o.reviewerId # userId)

(* --------------------------- DocumentService --------------------------- *)
\* A fileType outside the enum fails the validation of document.save(): the
\* upload is refused as an invalid file, as an oversized one is.
uploadDocument(orderId, uploadedBy, fileSize, fileType) ==
    /\ FreeIds(documents) # {}
    /\ UNCHANGED <<orders, reviews, payments, consultations, clock, calls, completedOnce,
                   notificationsUp>>
    /\ IF ~orders[orderId].exists
       THEN UploadFails(orderId, uploadedBy, fileSize, fileType, "NotFound")
       ELSE IF uploadedBy \notin Users
       THEN UploadFails(orderId, uploadedBy, fileSize, fileType, "NotFound")
       ELSE IF FileTooLarge(fileSize)
       THEN UploadFails(orderId, uploadedBy, fileSize, fileType, "InvalidFile")
       ELSE IF NormalizeFileType(fileType) \notin AllowedFileTypes
       THEN UploadFails(orderId, uploadedBy, fileSize, fileType, "InvalidFile")
       ELSE LET id == NextId(documents)
                o == orders[orderId]
            IN /\ documents' = [documents EXCEPT ![id] =
                                  [exists |-> TRUE, orderId |-> orderId,
                                   uploadedBy |-> uploadedBy, isActive |-> TRUE,
                                   downloadCount |-> 0]]
               /\ res' = UploadResult(id, orderId, uploadedBy, fileSize, fileType, "OK")
               /\ notified' =
                    <<Notice(o.customerId, "Document Uploaded")>> \o
                    (IF o.reviewerId # NULL /\ o.reviewerId # uploadedBy
                     THEN <<Notice(o.reviewerId, "Document Uploaded")>>
                     ELSE <<>>)

\* fileOnDisk: whether fs.access finds the stored file.
downloadDocument(id, userId, fileOnDisk) ==
    /\ UNCHANGED <<orders, reviews, payments, consultations, clock, calls, completedOnce,
                   notificationsUp>>
    /\ IF ~documents[id].exists \/ ~documents[id].isActive
       THEN DocumentFails("downloadDocument", id, userId, 0, "NotFound")
       ELSE IF DownloadRefused(orders[documents[id].orderId], userId)
       THEN DocumentFails("downloadDocument", id, userId, 0, "Forbidden")
       ELSE IF ~fileOnDisk
       THEN DocumentFails("downloadDocument", id, userId, 0, "FileMissing")
       ELSE /\ documents[id].downloadCount < MaxDownloads
            /\ documents' = [documents EXCEPT ![id].downloadCount = @ + 1]
            /\ res' = Result("downloadDocument", id, userId, 0, "OK")
            /\ notified' = <<>>

deleteDocument(id, userId) ==
    /\ UNCHANGED <<orders, reviews, payments, consultations, clock, calls, completedOnce,
                   notificationsUp>>
    /\ IF ~documents[id].exists
       THEN DocumentFails("deleteDocument", id, userId, 0, "NotFound")
       ELSE IF DeleteRefused(documents[id], orders[documents[id].orderId], userId)
       THEN DocumentFails("deleteDocument", id, userId, 0, "Forbidden")
       ELSE /\ documents' = [documents EXCEPT ![id].isActive = FALSE]
            /\ res' = Result("deleteDocument", id, userId, 0, "OK")
            /\ notified' = <<>>

restoreDocument(id) ==
    /\ UNCHANGED <<orders, reviews, payments, consultations, clock, calls, completedOnce,
                   notificationsUp>>
    /\ IF ~documents[id].exists
       THEN DocumentFails("restoreDocument", id, NULL, 0, "NotFound")
       ELSE /\ documents' = [documents EXCEPT ![id].isActive = TRUE]
            /\ res' = Result("restoreDocument", id, NULL, 0, "OK")
            /\ notified' = <<>>

(* ---------------------------- Consultation ----------------------------- *)
\* Dates and durations are counted in half hours; clock is the current time.
NoReminders == [sent24h |-> FALSE, sent1h |-> FALSE, sent15min |-> FALSE]

\* rescheduleHistory holds one [previousDate, rescheduledBy, rescheduledAt]
\* per reschedule, oldest first.
NoConsultation ==
    [exists |-> FALSE, orderId |-> 0, customerId |-> NULL, reviewerId |-> NULL,
     scheduledDate |-> 0, duration |-> 0, status |-> "SCHEDULED",
     rescheduleHistory |-> <<>>, reminders |-> NoReminders]

ReminderTypes == {"24h", "1h", "15min"}

\* duration: { default: 60 }, in half hours.
DefaultDuration == 2

DateArgs == 1..MaxDate

DurationArgs == {1, 2}

Active(c) == c.exists /\ c.status \in {"SCHEDULED", "IN_PROGRESS"}

\* [scheduledDate, scheduledDate + duration) of a and of b intersect.
Overlap(a, b) ==
    /\ a.scheduledDate < b.scheduledDate + b.duration
    /\ b.scheduledDate < a.scheduledDate + a.duration

ConsultationFails(op, id, err) ==
    /\ res' = Result(op, id, NULL, 0, err)
    /\ notified' = <<>>
    /\ UNCHANGED consultations

\* The scheduledDate validator (date > new Date()), as save() runs it on a
\* stored consultation whose date was not changed: validates says whether
\* this save runs the validator on the unmodified path.
SaveRejected(c, validates) == validates /\ c.scheduledDate <= clock

BothParties(c, title) ==
    <<Notice(c.customerId, title), Notice(c.reviewerId, title)>>

(* ------------------------- ConsultationService ------------------------- *)
\* The post-save hook notifies only when doc.isNew, which is false once the
\* document is saved: scheduling creates no notification.
scheduleConsultation(orderId, customerId, reviewerId, scheduledDate, duration) ==
    /\ FreeIds(consultations) # {}
    /\ UNCHANGED <<orders, reviews, payments, documents, clock, calls, completedOnce,
                   notificationsUp>>
    /\ IF ~orders[orderId].exists
       THEN ConsultationFails("scheduleConsultation", 0, "NotFound")
       ELSE IF customerId \notin Users \/ reviewerId \notin Users
       THEN ConsultationFails("scheduleConsultation", 0, "InvalidParticipants")
       ELSE IF ~isReviewer(reviewerId)
       THEN ConsultationFails("scheduleConsultation", 0, "InvalidReviewer")
       ELSE IF scheduledDate <= clock
       THEN ConsultationFails("scheduleConsultation", 0, "InvalidDate")
       ELSE LET id == NextId(consultations) IN
            /\ consultations' = [consultations EXCEPT ![id] =
                  [exists |-> TRUE, orderId |-> orderId,
                   customerId |-> customerId, reviewerId |-> reviewerId,
                   scheduledDate |-> scheduledDate, duration |-> duration,
                   status |-> "SCHEDULED", rescheduleHistory |-> <<>>,
                   reminders |-> NoReminders]]
            /\ res' = Result("scheduleConsultation", id, NULL, 0, "OK")
            /\ notified' = <<>>

startConsultation(id, validates) ==
    /\ UNCHANGED <<orders, reviews, payments, documents, clock, calls, completedOnce,
                   notificationsUp>>
    /\ IF ~consultations[id].exists
       THEN ConsultationFails("startConsultation", id, "NotFound")
       ELSE IF consultations[id].status # "SCHEDULED"
       THEN ConsultationFails("startConsultation", id, "InvalidState")
       ELSE IF SaveRejected(consultations[id], validates)
       THEN ConsultationFails("startConsultation", id, "ValidationError")
       ELSE /\ consultations' = [consultations EXCEPT ![id].status = "IN_PROGRESS"]
            /\ res' = Result("startConsultation", id, NULL, 0, "OK")
            /\ notified' = <<>>

completeConsultation(id, validates) ==
    /\ UNCHANGED <<orders, reviews, payments, documents, clock, calls, completedOnce,
                   notificationsUp>>
    /\ IF ~consultations[id].exists
       THEN ConsultationFails("completeConsultation", id, "NotFound")
       ELSE IF consultations[id].status # "IN_PROGRESS"
       THEN ConsultationFails("completeConsultation", id, "InvalidState")
       ELSE IF SaveRejected(consultations[id], validates)
       THEN ConsultationFails("completeConsultation", id, "ValidationError")
       ELSE /\ consultations' = [consultations EXCEPT ![id].status = "COMPLETED"]
            /\ res' = Result("completeConsultation", id, NULL, 0, "OK")
            /\ notified' = <<>>

cancelConsultation(id, validates) ==
    /\ UNCHANGED <<orders, reviews, payments, documents, clock, calls, completedOnce,
                   notificationsUp>>
    /\ IF ~consultations[id].exists
       THEN ConsultationFails("cancelConsultation", id, "NotFound")
       ELSE IF consultations[id].status \notin {"SCHEDULED", "IN_PROGRESS"}
       THEN ConsultationFails("cancelConsultation", id, "InvalidState")
       ELSE IF SaveRejected(consultations[id], validates)
       THEN ConsultationFails("cancelConsultation", id, "ValidationError")
       ELSE /\ consultations' = [consultations EXCEPT ![id].status = "CANCELLED"]
            /\ res' = Result("cancelConsultation", id, NULL, 0, "OK")
            /\ notified' = BothParties(consultations[id], "Consultation Cancelled")

\* consultation.reschedule: logs the old date, moves the consultation and
\* resets the reminders; the new date passes the scheduledDate validator.
reschedule(c, newDate, rescheduledBy) ==
    [c EXCEPT
       !.rescheduleHistory = Append(@, [previousDate |-> c.scheduledDate,
                                        rescheduledBy |-> rescheduledBy,
                                        rescheduledAt |-> clock]),
       !.scheduledDate = newDate,
       !.status = "SCHEDULED",
       !.reminders = NoReminders]

NotReschedulable_Never(c) == FALSE

NotReschedulable(c) == c.status # "SCHEDULED"

RescheduleFails(id, newDate, rescheduledBy, err) ==
    /\ res' = Result("rescheduleConsultation", id, rescheduledBy, newDate, err)
    /\ notified' = <<>>
    /\ UNCHANGED consultations

rescheduleConsultation(id, newDate, rescheduledBy) ==
    /\ UNCHANGED <<orders, reviews, payments, documents, clock, calls, completedOnce,
                   notificationsUp>>
    /\ Len(consultations[id].rescheduleHistory) < MaxHistory
    /\ IF ~consultations[id].exists
       THEN RescheduleFails(id, newDate, rescheduledBy, "NotFound")
       ELSE IF NotReschedulable(consultations[id])
       THEN RescheduleFails(id, newDate, rescheduledBy, "InvalidState")
       ELSE IF newDate <= clock
       THEN RescheduleFails(id, newDate, rescheduledBy, "InvalidDate")
       ELSE /\ consultations' = [consultations EXCEPT ![id] =
                                   reschedule(@, newDate, rescheduledBy)]
            /\ res' = Result("rescheduleConsultation", id, rescheduledBy, newDate, "OK")
            /\ notified' = BothParties(consultations[id], "Consultation Rescheduled")

\* consultation.setReminder(type), then this.save()
setReminder(c, type) ==
    [c EXCEPT !.reminders =
        [sent24h |-> @.sent24h \/ type = "24h",
         sent1h |-> @.sent1h \/ type = "1h",
         sent15min |-> @.sent15min \/ type = "15min"]]

sendReminder(id, type, validates) ==
    /\ UNCHANGED <<orders, reviews, payments, documents, clock, calls, completedOnce,
                   notificationsUp>>
    /\ IF ~consultations[id].exists
       THEN ConsultationFails("sendReminder", id, "NotFound")
       ELSE IF SaveRejected(consultations[id], validates)
       THEN ConsultationFails("sendReminder", id, "ValidationError")
       ELSE /\ consultations' = [consultations EXCEPT ![id] = setReminder(@, type)]
            /\ res' = Result("sendReminder", id, type, 0, "OK")
            /\ notified' = BothParties(consultations[id], "Consultation Reminder")

\* updates is Partial<IConsultation>: status "unset" and scheduledDate 0
\* stand for a field the update does not carry, resetReminders for an update
\* that carries reminders with no flag set.  findByIdAndUpdate with
\* runValidators validates the fields it sets and runs no save hook; it
\* returns null for an unknown id.
updateConsultation(id, status, scheduledDate, resetReminders) ==
    /\ UNCHANGED <<orders, reviews, payments, documents, clock, calls, completedOnce,
                   notificationsUp>>
    /\ IF ~consultations[id].exists
       THEN ConsultationFails("updateConsultation", id, "OK")
       ELSE IF scheduledDate # 0 /\ scheduledDate <= clock
       THEN ConsultationFails("updateConsultation", id, "ValidationError")
       ELSE /\ consultations' = [consultations EXCEPT
                 ![id].status = IF status = "unset" THEN @ ELSE status,
                 ![id].scheduledDate = IF scheduledDate = 0 THEN @ ELSE scheduledDate,
                 ![id].reminders = IF resetReminders THEN NoReminders ELSE @]
            /\ res' = Result("updateConsultation", id, NULL, 0, "OK")
            /\ notified' = <<>>

(* --------------------- consultation route handlers --------------------- *)
\* POST: the booking of the signed-in customer; duration 0 stands for a
\* request without one.
bookConsultation(sessionUser, orderId, reviewerId, scheduledDate, duration) ==
    /\ FreeIds(consultations) # {}
    /\ UNCHANGED <<orders, reviews, payments, documents, clock, calls, completedOnce,
                   notificationsUp>>
    /\ IF ~orders[orderId].exists \/ orders[orderId].customerId # sessionUser
       THEN ConsultationFails("bookConsultation", 0, "NotFound")
       ELSE IF \E c \in ConsultationIds :
                  /\ Active(consultations[c])
                  /\ consultations[c].reviewerId = reviewerId
                  /\ consultations[c].scheduledDate = scheduledDate
       THEN ConsultationFails("bookConsultation", 0, "SlotTaken")
       ELSE LET id == NextId(consultations) IN
            /\ consultations' = [consultations EXCEPT ![id] =
                  [exists |-> TRUE, orderId |-> orderId,
                   customerId |-> sessionUser, reviewerId |-> reviewerId,
                   scheduledDate |-> scheduledDate,
                   duration |-> IF duration = 0 THEN DefaultDuration ELSE duration,
                   status |-> "SCHEDULED", rescheduleHistory |-> <<>>,
                   reminders |-> NoReminders]]
            /\ res' = Result("bookConsultation", id, NULL, 0, "OK")
            /\ notified' = <<Notice(reviewerId, "New Consultation Scheduled")>>

IsParty(c, sessionUser) ==
    c.exists /\ (c.customerId = sessionUser \/ c.reviewerId = sessionUser)

\* PUT: status "unset" and scheduledDate 0 stand for a body without them.
putConsultation(sessionUser, id, status, scheduledDate) ==
    /\ UNCHANGED <<orders, reviews, payments, documents, clock, calls, completedOnce,
                   notificationsUp>>
    /\ IF ~IsParty(consultations[id], sessionUser)
       THEN ConsultationFails("putConsultation", id, "NotFound")
       ELSE /\ consultations' = [consultations EXCEPT
                 ![id].status = IF status = "unset" THEN @ ELSE status,
                 ![id].scheduledDate = IF scheduledDate = 0 THEN @ ELSE scheduledDate]
            /\ res' = Result("putConsultation", id, NULL, 0, "OK")
            /\ notified' = <<>>

\* DELETE
deleteConsultation(sessionUser, id) ==
    /\ UNCHANGED <<orders, reviews, payments, documents, clock, calls, completedOnce,
                   notificationsUp>>
    /\ IF ~IsParty(consultations[id], sessionUser)
       THEN ConsultationFails("deleteConsultation", id, "NotFound")
       ELSE /\ consultations' = [consultations EXCEPT ![id].status = "CANCELLED"]
            /\ res' = Result("deleteConsultation", id, NULL, 0, "OK")
            /\ notified' = <<>>

(* ------------------------- calls in flight ----------------------------- *)
\* A service call that runs concurrently with others is a sequence of steps,
\* one per awaited database operation.  calls[k] is the k-th such call: the
\* operation, where it stands, the id it was given, the document it loaded,
\* and its outcome.  overlapped notes that another call was in flight when
\* this one loaded its document.
NoCall ==
    [op |-> "none", pc |-> "idle", id |-> 0, doc |-> NoPayment, err |-> "OK",
     overlapped |-> FALSE, odoc |-> NoOrder, sarg |-> NULL, narg |-> 0,
     notices |-> <<>>]

InFlight(k) == calls[k].pc \notin {"idle", "done"}

StepTaken(op, id) ==
    /\ res' = Result(op, id, NULL, 0, "OK")
    /\ notified' = <<>>

\* document.save() sends the paths the call modified, not the whole document.
WriteModifiedPaths(stored, loaded, saved) ==
    [f \in DOMAIN stored |-> IF saved[f] # loaded[f] THEN saved[f] ELSE stored[f]]

\* completePayment, first await: Payment.findById(id) and the status check.
completePaymentLoad(k, id) ==
    /\ calls[k].pc = "idle"
    /\ UNCHANGED <<orders, reviews, payments, documents, consultations, clock,
                   completedOnce, notificationsUp>>
    /\ StepTaken("completePayment:load", id)
    /\ LET err == IF ~payments[id].exists THEN "NotFound"
                  ELSE IF payments[id].status = "COMPLETED" THEN "AlreadyCompleted"
                  ELSE "OK"
       IN calls' = [calls EXCEPT ![k] =
             [NoCall EXCEPT
                !.op = "completePayment",
                !.pc = IF err = "OK" THEN "loaded" ELSE "done",
                !.id = id, !.doc = payments[id], !.err = err,
                !.overlapped = \E j \in CallIds \ {k} : InFlight(j)]]

\* second await: payment.complete() up to the write of this.save().
completePaymentSave(k) ==
    /\ calls[k].op = "completePayment" /\ calls[k].pc = "loaded"
    /\ UNCHANGED <<orders, reviews, documents, consultations, clock, completedOnce,
                   notificationsUp>>
    /\ StepTaken("completePayment:save", calls[k].id)
    /\ LET loaded == calls[k].doc
           saved == PaymentPreSave([loaded EXCEPT !.status = "COMPLETED",
                                                  !.processedAt = clock])
       IN /\ payments' = [payments EXCEPT ![calls[k].id] =
                             WriteModifiedPaths(@, loaded, saved)]
          /\ calls' = [calls EXCEPT ![k].pc = "saved", ![k].doc = saved]

\* third await: the post-save hook, whose $inc is one atomic update of the
\* order, and the notification; the call then returns.
completePaymentPostSave(k) ==
    /\ calls[k].op = "completePayment" /\ calls[k].pc = "saved"
    /\ UNCHANGED <<reviews, payments, documents, consultations, clock, completedOnce,
                   notificationsUp>>
    /\ orders' = PaymentPostSaveOrders(calls[k].doc, orders)
    /\ notified' = PaymentPostSaveNotices(calls[k].doc, orders)
    /\ res' = Result("completePayment", calls[k].id, NULL, NoAmount, "OK")
    /\ calls' = [calls EXCEPT ![k].pc = "done"]

\* refundPayment, first await: Payment.findById(id) and the checks of the
\* status and of the amount.
refundPaymentLoad(k, id, amount) ==
    /\ calls[k].pc = "idle"
    /\ UNCHANGED <<orders, reviews, payments, documents, consultations, clock,
                   completedOnce, notificationsUp>>
    /\ StepTaken("refundPayment:load", id)
    /\ LET refundAmount == IF amount = NoAmount \/ amount = 0
                           THEN payments[id].amount ELSE amount
           err == IF ~payments[id].exists THEN "NotFound"
                  ELSE IF payments[id].status # "COMPLETED" THEN "InvalidState"
                  ELSE IF RefundExceeds(refundAmount, payments[id])
                  THEN "InvalidAmount"
                  ELSE "OK"
       IN calls' = [calls EXCEPT ![k] =
             [NoCall EXCEPT
                !.op = "refundPayment",
                !.pc = IF err = "OK" THEN "loaded" ELSE "done",
                !.id = id, !.doc = payments[id], !.err = err,
                !.narg = refundAmount,
                !.overlapped = \E j \in CallIds \ {k} : InFlight(j)]]

\* second await: payment.refund(), whose save stores a REFUNDED payment; the
\* post-save hook leaves the order alone.
refundPaymentSave(k) ==
    /\ calls[k].op = "refundPayment" /\ calls[k].pc = "loaded"
    /\ UNCHANGED <<orders, reviews, documents, consultations, clock, completedOnce,
                   notificationsUp>>
    /\ StepTaken("refundPayment:save", calls[k].id)
    /\ LET loaded == calls[k].doc
           saved == PaymentPreSave([loaded EXCEPT !.status = "REFUNDED",
                                                  !.refundAmount = calls[k].narg])
       IN /\ payments' = [payments EXCEPT ![calls[k].id] =
                             WriteModifiedPaths(@, loaded, saved)]
          /\ calls' = [calls EXCEPT ![k].pc = "saved", ![k].doc = saved]

\* third await: Order.findById(payment.orderId).
refundPaymentReadOrder(k) ==
    /\ calls[k].op = "refundPayment" /\ calls[k].pc = "saved"
    /\ UNCHANGED <<orders, reviews, payments, documents, consultations, clock,
                   completedOnce, notificationsUp>>
    /\ StepTaken("refundPayment:readOrder", calls[k].id)
    /\ calls' = [calls EXCEPT
                   ![k].pc = IF orders[calls[k].doc.orderId].exists
                             THEN "orderRead" ELSE "done",
                   ![k].odoc = orders[calls[k].doc.orderId]]

\* fourth await: order.paidAmount = Math.max(0, order.paidAmount -
\* refundAmount) on the order that was read, order.save(), and the
\* notification; the call then returns.
refundPaymentWriteOrder(k) ==
    /\ calls[k].op = "refundPayment" /\ calls[k].pc = "orderRead"
    /\ UNCHANGED <<reviews, payments, documents, consultations, clock, completedOnce,
                   notificationsUp>>
    /\ LET loaded == calls[k].odoc
           saved == OrderPreSave(
                      [loaded EXCEPT !.paidAmount =
                          IF @ - calls[k].narg > 0 THEN @ - calls[k].narg ELSE 0])
       IN /\ orders' = [orders EXCEPT ![calls[k].doc.orderId] =
                           WriteModifiedPaths(@, loaded, saved)]
          /\ notified' = <<Notice(loaded.customerId, "Payment Refunded")>>
    /\ res' = Result("refundPayment", calls[k].id, NULL, calls[k].narg, "OK")
    /\ calls' = [calls EXCEPT ![k].pc = "done"]

\* assignReviewer, first awaits: User.findById(reviewerId), Order.findById
\* (orderId) and the checks of both.
assignReviewerLoad(k, orderId, reviewerId) ==
    /\ calls[k].pc = "idle"
    /\ UNCHANGED <<orders, reviews, payments, documents, consultations, clock,
                   completedOnce, notificationsUp>>
    /\ StepTaken("assignReviewer:load", orderId)
    /\ LET err == IF ~ValidReviewer(reviewerId) THEN "InvalidReviewer"
                  ELSE IF ~orders[orderId].exists THEN "NotFound"
                  ELSE IF ~canBeAssigned(orders[orderId]) THEN "InvalidState"
                  ELSE "OK"
       IN calls' = [calls EXCEPT ![k] =
             [NoCall EXCEPT
                !.op = "assignReviewer",
                !.pc = IF err = "OK" THEN "loaded" ELSE "done",
                !.id = orderId, !.odoc = orders[orderId], !.err = err,
                !.sarg = reviewerId,
                !.overlapped = \E j \in CallIds \ {k} : InFlight(j)]]

\* next await: reviewerId, status and assignedAt are set on the order that
\* was loaded, and order.save() writes them.
assignReviewerSave(k) ==
    /\ calls[k].op = "assignReviewer" /\ calls[k].pc = "loaded"
    /\ UNCHANGED <<reviews, payments, documents, consultations, clock, completedOnce,
                   notificationsUp>>
    /\ StepTaken("assignReviewer:save", calls[k].id)
    /\ LET loaded == calls[k].odoc
           saved == OrderPreSave([loaded EXCEPT !.reviewerId = calls[k].sarg,
                                                !.status = "ASSIGNED",
                                                !.assignedAt = clock])
       IN /\ orders' = [orders EXCEPT ![calls[k].id] =
                           WriteModifiedPaths(@, loaded, saved)]
          /\ calls' = [calls EXCEPT ![k].pc = "saved", ![k].odoc = saved]

\* last await: the two notifications; the call then returns the order.
assignReviewerNotify(k) ==
    /\ calls[k].op = "assignReviewer" /\ calls[k].pc = "saved"
    /\ UNCHANGED <<orders, reviews, payments, documents, consultations, clock,
                   completedOnce, notificationsUp>>
    /\ res' = Result("assignReviewer", calls[k].id, calls[k].sarg, 0, "OK")
    /\ notified' = <<Notice(calls[k].odoc.customerId, "Order Assigned"),
                     Notice(calls[k].sarg, "New Order Assignment")>>
    /\ calls' = [calls EXCEPT ![k].pc = "done", ![k].notices = notified']

\* A time of the model is half an hour.
MinutesPerUnit == 30

ReminderWindowMinutes == 5

\* timeInMinutes of a reminder type.
ReminderMinutes(type) ==
    IF type = "24h" THEN 1440 ELSE IF type = "1h" THEN 60 ELSE 15

\* 'reminders.sent24h' | 'reminders.sent1h' | 'reminders.sent15min' | null
reminderField(timeInMinutes) ==
    IF timeInMinutes = 1440 THEN "sent24h"
    ELSE IF timeInMinutes = 60 THEN "sent1h"
    ELSE IF timeInMinutes = 15 THEN "sent15min"
    ELSE NULL

\* Consultation.findForReminders(timeInMinutes): the consultations due in
\* timeInMinutes, five minutes either way, that are SCHEDULED and whose
\* reminder of that kind is not marked sent.
findForReminders(timeInMinutes) ==
    IF reminderField(timeInMinutes) = NULL THEN {}
    ELSE LET targetTime == clock * MinutesPerUnit + timeInMinutes IN
         {c \in ConsultationIds :
            /\ consultations[c].exists
            /\ consultations[c].scheduledDate * MinutesPerUnit
                  >= targetTime - ReminderWindowMinutes
            /\ consultations[c].scheduledDate * MinutesPerUnit
                  <= targetTime + ReminderWindowMinutes
            /\ consultations[c].status = "SCHEDULED"
            /\ consultations[c].reminders[reminderField(timeInMinutes)] # TRUE}

(* ----------------------- available slots (GET) ------------------------- *)
\* Times are counted in half hours; time 0 is a Monday, 08:30.
HalfHoursPerDay == 48

EpochHalfHour == 17

WorkingHours == {9, 10, 11, 14, 15, 16, 17}

WindowDays == 7

\* Date.getDay() of a time: 0 is Sunday, 1 is Monday.
DayIndex(t) == (t + EpochHalfHour) \div HalfHoursPerDay

getDay(t) == (1 + DayIndex(t)) % 7

\* date.setHours(hour, 0, 0, 0) on the day of t.
setHours(t, hour) == DayIndex(t) * HalfHoursPerDay + hour * 2 - EpochHalfHour

\* date.setDate(date.getDate() + i)
AddDays(t, i) == t + i * HalfHoursPerDay

SlotLength == 2

\* prisma.consultation.findMany: the reviewer's SCHEDULED or IN_PROGRESS
\* consultations with startDate <= scheduledDate <= endDate.
ExistingConsultations(reviewerId, startDate) ==
    {c \in ConsultationIds :
        /\ consultations[c].exists
        /\ consultations[c].reviewerId = reviewerId
        /\ consultations[c].scheduledDate >= startDate
        /\ consultations[c].scheduledDate <= AddDays(startDate, WindowDays)
        /\ consultations[c].status \in {"SCHEDULED", "IN_PROGRESS"}}

\* slotTime < consultationEnd && slotEnd > consultationStart
isBooked(slotTime, existing) ==
    \E c \in existing :
        /\ slotTime < consultations[c].scheduledDate + consultations[c].duration
        /\ slotTime + SlotLength > consultations[c].scheduledDate

\* The loop over the seven days and the working hours.
availableSlots(reviewerId, startDate) ==
    LET existing == ExistingConsultations(reviewerId, startDate) IN
    {slotTime \in {setHours(AddDays(startDate, i), hour) :
                     i \in {j \in 0..(WindowDays - 1) :
                              getDay(AddDays(startDate, j)) \notin {0, 6}},
                     hour \in WorkingHours} :
        /\ ~(slotTime < clock)
        /\ ~isBooked(slotTime, existing)}

SlotsResult(reviewerId, date, err, slots) ==
    [op |-> "getAvailableSlots", id |-> 0, sarg |-> reviewerId, narg |-> date,
     err |-> err, slots |-> slots]

\* GET: date is 0 when the request carries none; the window then starts now.
getAvailableSlots(reviewerId, date) ==
    /\ UNCHANGED <<orders, reviews, payments, documents, consultations, clock,
                   calls, completedOnce, notificationsUp>>
    /\ notified' = <<>>
    /\ IF reviewerId \notin Users \/ UserRole(reviewerId) # "REVIEWER"
       THEN res' = SlotsResult(reviewerId, date, "NotFound", {})
       ELSE LET startDate == IF date # 0 THEN date ELSE clock IN
            res' = SlotsResult(reviewerId, date, "OK",
                               availableSlots(reviewerId, startDate))

\* Wall-clock time passes between calls.
Tick ==
    /\ clock < MaxClock
    /\ clock' = clock + 1
    /\ res' = Result("tick", 0, NULL, 0, "OK")
    /\ notified' = <<>>
    /\ UNCHANGED <<orders, reviews, payments, documents, consultations,
                   completedOnce, calls, notificationsUp>>

(* ------------------------------ Init ----------------------------------- *)
Init ==
    /\ orders = [i \in OrderIds |-> NoOrder]
    /\ reviews = [i \in ReviewIds |-> NoReview]
    /\ payments = [i \in PaymentIds |-> NoPayment]
    /\ documents = [i \in DocumentIds |-> NoDocument]
    /\ consultations = [i \in ConsultationIds |-> NoConsultation]
    /\ clock = 1
    /\ res = Result("init", 0, NULL, 0, "OK")
    /\ notified = <<>>
    /\ completedOnce = {}
    /\ calls = [k \in CallIds |-> NoCall]
    /\ notificationsUp = TRUE

Next ==
    \/ \E c \in {"c1", "ghost"}, t \in {1} : createOrder(c, t)
    \/ \E o \in OrderIds, r \in UserIdArgs : assignReviewer(o, r)
    \/ \E o \in OrderIds, s \in OrderStatus : updateOrderStatus(o, s)
    \/ \E o \in OrderIds : cancelOrder(o)
    \/ \E o \in OrderIds, u \in OrderUpdates : updateOrder(o, u)
    \/ \E o \in OrderIds, r \in UserIdArgs : createReview(o, r)
    \/ \E r \in ReviewIds : completeReview(r)
    \/ \E r \in ReviewIds, u \in ReviewUpdates : updateReview(r, u)
    \/ \E r \in ReviewIds : deleteReview(r)
    \/ \E r \in ReviewIds, v \in BOOLEAN : addReviewRating(r, v)
    \/ \E r \in ReviewIds : addReviewTags(r)
    \/ \E r \in ReviewIds : removeReviewTag(r)
    \/ \E r \in ReviewIds : addReviewAttachment(r)
    \/ Tick

Spec == Init /\ [][Next]_vars

\* The payment ledger: orders are created, and PaymentService acts on them.
NextPayment ==
    \/ \E t \in 1..MaxAmount : createOrder("c1", t)
    \/ \E o \in OrderIds, a \in 0..MaxAmount : createPayment(o, a)
    \/ \E p \in PaymentIds, f \in {NoAmount} \cup 0..MaxFee : completePayment(p, f)
    \/ \E p \in PaymentIds : failPayment(p)
    \/ \E p \in PaymentIds, a \in {NoAmount} \cup 0..(MaxAmount + 1) :
          refundPayment(p, a)
    \/ \E p \in PaymentIds : cancelPayment(p)
    \/ \E p \in PaymentIds : retryFailedPayment(p)

SpecPayment == Init /\ [][NextPayment]_vars

\* The document registry: orders are created and assigned, and
\* DocumentService acts on their documents.
NextDocument ==
    \/ \E c \in {"c1", "c2"} : createOrder(c, 1)
    \/ \E o \in OrderIds, r \in {"r1", "r2"} : assignReviewer(o, r)
    \/ \E o \in OrderIds, u \in UserIdArgs, z \in FileSizeArgs, t \in FileTypeArgs :
          uploadDocument(o, u, z, t)
    \/ \E d \in DocumentIds, u \in Users, f \in BOOLEAN : downloadDocument(d, u, f)
    \/ \E d \in DocumentIds, u \in Users : deleteDocument(d, u)
    \/ \E d \in DocumentIds : restoreDocument(d)

\* Notification writes start to fail, and work again.
NotificationsFail ==
    /\ notificationsUp
    /\ notificationsUp' = FALSE
    /\ res' = Result("notificationsFail", 0, NULL, 0, "OK")
    /\ notified' = <<>>
    /\ UNCHANGED <<orders, reviews, payments, documents, consultations, clock,
                   calls, completedOnce>>

NotificationsRecover ==
    /\ ~notificationsUp
    /\ notificationsUp' = TRUE
    /\ res' = Result("notificationsRecover", 0, NULL, 0, "OK")
    /\ notified' = <<>>
    /\ UNCHANGED <<orders, reviews, payments, documents, consultations, clock,
                   calls, completedOnce>>

\* Orders and reviews while the notification collection comes and goes.
NextNotifyFault ==
    \/ createOrder("c1", 1)
    \/ \E o \in OrderIds, r \in {"r1", "ghost"} : assignReviewer(o, r)
    \/ \E o \in OrderIds, st \in OrderStatus : updateOrderStatus(o, st)
    \/ \E o \in OrderIds : cancelOrder(o)
    \/ \E o \in OrderIds, r \in {"r1", "r2"} : createReview(o, r)
    \/ NotificationsFail
    \/ NotificationsRecover

SpecNotifyFault == Init /\ [][NextNotifyFault]_vars

SpecDocument == Init /\ [][NextDocument]_vars

\* Concurrent completions: payments are created for an order, and
\* completePayment calls run interleaved, step by step.
NextConcurrentComplete ==
    \/ createOrder("c1", MaxAmount)
    \/ \E o \in OrderIds, a \in 1..MaxAmount : createPayment(o, a)
    \/ \E k \in CallIds, p \in PaymentIds : completePaymentLoad(k, p)
    \/ \E k \in CallIds : completePaymentSave(k)
    \/ \E k \in CallIds : completePaymentPostSave(k)
    \/ Tick

SpecConcurrentComplete == Init /\ [][NextConcurrentComplete]_vars

\* The consultation scheduler: ConsultationService and the consultation
\* route handlers act on the consultations of an order, as time passes.
StatusArgs == {"unset", "SCHEDULED", "IN_PROGRESS", "COMPLETED", "CANCELLED"}

\* 0: no date in the update; 1: an early date; MaxDate: a late one.
UpdateDateArgs == {0, 1, MaxDate}

NextConsultation ==
    \/ createOrder("c1", 1)
    \/ \E o \in OrderIds, r \in {"r1", "r2", "c2"}, d \in DateArgs,
          n \in DurationArgs : scheduleConsultation(o, "c1", r, d, n)
    \/ \E u \in {"c1", "c2"}, o \in OrderIds, r \in {"r1", "r2"}, d \in DateArgs,
          n \in {0} \cup DurationArgs : bookConsultation(u, o, r, d, n)
    \/ \E c \in ConsultationIds, v \in BOOLEAN : startConsultation(c, v)
    \/ \E c \in ConsultationIds, v \in BOOLEAN : completeConsultation(c, v)
    \/ \E c \in ConsultationIds, v \in BOOLEAN : cancelConsultation(c, v)
    \/ \E c \in ConsultationIds, st \in StatusArgs, d \in UpdateDateArgs,
          rr \in BOOLEAN : updateConsultation(c, st, d, rr)
    \/ \E u \in {"r1", "c2"}, c \in ConsultationIds, st \in StatusArgs,
          d \in UpdateDateArgs : putConsultation(u, c, st, d)
    \/ \E u \in {"r1", "c2"}, c \in ConsultationIds : deleteConsultation(u, c)
    \/ Tick

SpecConsultation == Init /\ [][NextConsultation]_vars

\* The life of one consultation: it is scheduled, reminded of, moved,
\* started and cancelled as time passes.
NoConsultationYet == \A c \in ConsultationIds : ~consultations[c].exists

NextReschedule ==
    \/ createOrder("c1", 1)
    \/ \E o \in OrderIds, d \in DateArgs :
          NoConsultationYet /\ scheduleConsultation(o, "c1", "r1", d, DefaultDuration)
    \/ \E c \in ConsultationIds, d \in DateArgs, u \in {"c1", "r1"} :
          rescheduleConsultation(c, d, u)
    \/ \E c \in ConsultationIds, t \in ReminderTypes, v \in BOOLEAN :
          sendReminder(c, t, v)
    \/ \E c \in ConsultationIds, v \in BOOLEAN : startConsultation(c, v)
    \/ \E c \in ConsultationIds, v \in BOOLEAN : cancelConsultation(c, v)
    \/ Tick

SpecReschedule == Init /\ [][NextReschedule]_vars

\* The reminders of one consultation: it is scheduled, reminded of, moved,
\* updated, started and cancelled as time passes.
NextReminders ==
    \/ createOrder("c1", 1)
    \/ \E o \in OrderIds, d \in DateArgs :
          NoConsultationYet /\ scheduleConsultation(o, "c1", "r1", d, DefaultDuration)
    \/ \E c \in ConsultationIds, t \in ReminderTypes, v \in BOOLEAN :
          sendReminder(c, t, v)
    \/ \E c \in ConsultationIds, d \in DateArgs :
          rescheduleConsultation(c, d, "c1")
    \/ \E c \in ConsultationIds, rr \in BOOLEAN :
          updateConsultation(c, "unset", 0, rr)
    \/ \E c \in ConsultationIds, v \in BOOLEAN : startConsultation(c, v)
    \/ \E c \in ConsultationIds, v \in BOOLEAN : cancelConsultation(c, v)
    \/ Tick

SpecReminders == Init /\ [][NextReminders]_vars

(* ======================= claims: orders and reviews ==================== *)
AssignedStatuses == {"ASSIGNED", "IN_PROGRESS", "UNDER_REVIEW", "COMPLETED"}

\* The step is assignReviewer on an existing order that is not PENDING_REVIEW.
AssignOnNonPending ==
    /\ res'.op = "assignReviewer"
    /\ orders[res'.id].exists
    /\ orders[res'.id].status # "PENDING_REVIEW"

\* C2 (as stated): assignReviewer on an existing order that is not
\* PENDING_REVIEW fails with InvalidState for every reviewerId argument, and
\* changes no order and creates no notification.
C2_AssignAlwaysInvalidState ==
    [][AssignOnNonPending =>
         /\ res'.err = "InvalidState"
         /\ orders' = orders
         /\ notified' = <<>>]_vars

\* C2 (amended): assignReviewer on an existing order that is not
\* PENDING_REVIEW fails, with InvalidState when reviewerId resolves to an
\* active reviewer and with InvalidReviewer otherwise (the reviewer is looked
\* up first); in both cases no order changes and no notification is created.
C2_AssignRejected ==
    [][AssignOnNonPending =>
         /\ res'.err = IF ValidReviewer(res'.sarg)
                       THEN "InvalidState" ELSE "InvalidReviewer"
         /\ orders' = orders
         /\ notified' = <<>>]_vars

\* C2 witness: an assignment of a valid reviewer was refused on an order
\* that already left PENDING_REVIEW.
C2_Witness ==
    /\ res.op = "assignReviewer"
    /\ res.err = "InvalidState"
    /\ ValidReviewer(res.sarg)
    /\ orders[res.id].status # "PENDING_REVIEW"
    /\ orders[res.id].reviewerId # NULL

\* C6: once completeReview has succeeded on a review, every later
\* completeReview on that review fails with AlreadyComplete and changes
\* neither the reviews nor the orders; a successful completeReview leaves
\* the review complete and its order COMPLETED with completedAt set.
C6_CompleteOnce ==
    [][res'.op = "completeReview" =>
         /\ res'.id \in completedOnce =>
              /\ res'.err = "AlreadyComplete"
              /\ reviews' = reviews
              /\ orders' = orders
         /\ res'.err = "OK" =>
              /\ reviews'[res'.id].isComplete
              /\ orders'[reviews[res'.id].orderId].status = "COMPLETED"
              /\ orders'[reviews[res'.id].orderId].completedAt # 0]_vars

\* C10: an order has a reviewer exactly when its status is one of ASSIGNED,
\* IN_PROGRESS, UNDER_REVIEW, COMPLETED.
C10_ReviewerIffAssignedStatus ==
    \A o \in OrderIds :
        orders[o].exists =>
            (orders[o].reviewerId # NULL <=> orders[o].status \in AssignedStatuses)

\* C12: isComplete is one-way: no step takes a stored review from complete
\* back to incomplete.
C12_IsCompleteOneWay ==
    [][\A r \in ReviewIds :
         (reviews[r].exists /\ reviews[r].isComplete) =>
            reviews'[r].isComplete]_vars

\* C13: an order's reviewerId, assignedAt and completedAt are written at
\* most once: no step changes a non-null value of any of them.
C13_WrittenOnce ==
    [][\A o \in OrderIds :
         orders[o].exists =>
            /\ orders[o].reviewerId # NULL =>
                  orders'[o].reviewerId = orders[o].reviewerId
            /\ orders[o].assignedAt # 0 =>
                  orders'[o].assignedAt = orders[o].assignedAt
            /\ orders[o].completedAt # 0 =>
                  orders'[o].completedAt = orders[o].completedAt]_vars

\* C17: createReview on an existing order fails with NotAssigned, creating
\* no review and no notification, unless the order's reviewerId is set and
\* equals the reviewerId given; a review that is created carries the
\* reviewerId its order has at that moment.
C17_CreateRequiresAssignment ==
    [][(res'.op = "createReview" /\ orders[res'.narg].exists) =>
         LET o == orders[res'.narg] IN
         /\ (o.reviewerId = NULL \/ o.reviewerId # res'.sarg) =>
               /\ res'.err = "NotAssigned"
               /\ reviews' = reviews
               /\ notified' = <<>>
         /\ res'.err = "OK" =>
               /\ ~reviews[res'.id].exists
               /\ reviews'[res'.id].exists
               /\ reviews'[res'.id].orderId = res'.narg
               /\ reviews'[res'.id].reviewerId = o.reviewerId
               /\ o.reviewerId # NULL]_vars

\* C17 witness: a reviewer other than the one assigned to the order was
\* refused.
C17_Witness ==
    /\ res.op = "createReview"
    /\ res.err = "NotAssigned"
    /\ isReviewer(res.sarg)
    /\ orders[res.narg].exists
    /\ orders[res.narg].reviewerId # NULL
    /\ orders[res.narg].reviewerId # res.sarg

\* C18: cancelOrder on a COMPLETED order fails with InvalidState, changes
\* no order and notifies nobody; on an order in any other status it sets
\* the status to CANCELLED and creates exactly one notification, for the
\* order's customer.
C18_CancelOrder ==
    [][(res'.op = "cancelOrder" /\ orders[res'.id].exists) =>
         IF orders[res'.id].status = "COMPLETED"
         THEN /\ res'.err = "InvalidState"
              /\ orders' = orders
              /\ notified' = <<>>
         ELSE /\ res'.err = "OK"
              /\ orders'[res'.id].status = "CANCELLED"
              /\ Len(notified') = 1
              /\ notified'[1].userId = orders[res'.id].customerId]_vars

\* C18 witness: a COMPLETED order outlived a cancelOrder call.
C18_Witness ==
    /\ res.op = "cancelOrder"
    /\ res.err = "InvalidState"
    /\ orders[res.id].status = "COMPLETED"

\* C29: addReviewTags, removeReviewTag and addReviewAttachment on a
\* complete review leave the parent order's status and completedAt as they
\* were.
C29_EditsLeaveOrderAlone ==
    [][(/\ res'.op \in {"addReviewTags", "removeReviewTag", "addReviewAttachment"}
        /\ reviews[res'.id].exists
        /\ reviews[res'.id].isComplete) =>
         LET o == reviews[res'.id].orderId IN
         /\ orders'[o].status = orders[o].status
         /\ orders'[o].completedAt = orders[o].completedAt]_vars

\* C23: paidAmount is 0 on a new order and no OrderService or ReviewService
\* operation changes the paidAmount of an existing order.
C23_PaidAmountFrame ==
    [][\A o \in OrderIds :
          IF orders[o].exists
          THEN orders'[o].paidAmount = orders[o].paidAmount
          ELSE orders'[o].exists => orders'[o].paidAmount = 0]_vars

\* The primary write of the call that just ended: the order's new status
\* and reviewer, or the stored review.
PrimaryWritePersisted ==
    \/ /\ res'.op = "assignReviewer"
       /\ orders'[res'.id].reviewerId = res'.sarg
       /\ orders'[res'.id].status = "ASSIGNED"
    \/ /\ res'.op = "updateOrderStatus"
       /\ orders'[res'.id].status = res'.sarg
    \/ /\ res'.op = "cancelOrder"
       /\ orders'[res'.id].status = "CANCELLED"
    \/ /\ res'.op = "createReview"
       /\ ~reviews[res'.id].exists
       /\ reviews'[res'.id].exists
       /\ reviews'[res'.id].orderId = res'.narg

\* C21: when the notification cannot be created after the primary write of
\* assignReviewer, updateOrderStatus, cancelOrder or createReview, the call
\* ends in an error, with no notification, and the primary write stays; a
\* call that owes a notification does not end well while they cannot be
\* created.
C21_NoRollback ==
    [][res'.op \in {"assignReviewer", "updateOrderStatus", "cancelOrder",
                    "createReview"} =>
          /\ res'.err = "NotificationFailed" =>
                /\ ~notificationsUp
                /\ notified' = <<>>
                /\ PrimaryWritePersisted
          /\ (res'.err = "OK" /\ ~notificationsUp) =>
                /\ res'.op = "updateOrderStatus"
                /\ orders[res'.id].status = res'.sarg]_vars

\* C21 witness: an assignment is stored although its call failed on the
\* notifications.
C21_Witness ==
    /\ res.op = "assignReviewer"
    /\ res.err = "NotificationFailed"
    /\ ~notificationsUp
    /\ orders[res.id].reviewerId = res.sarg
    /\ orders[res.id].status = "ASSIGNED"
    /\ notified = <<>>

\* What a payment has added to its order's paidAmount and not given back.
PaymentContribution(p) ==
    IF p.status = "COMPLETED" THEN p.amount
    ELSE IF p.status = "REFUNDED" THEN p.amount - p.refundAmount
    ELSE 0

RECURSIVE LedgerSum(_, _)
LedgerSum(orderId, ids) ==
    IF ids = {} THEN 0
    ELSE LET id == CHOOSE i \in ids : TRUE IN
         (IF payments[id].exists /\ payments[id].orderId = orderId
          THEN PaymentContribution(payments[id]) ELSE 0)
         + LedgerSum(orderId, ids \ {id})

\* C24: an order's paidAmount is the sum over its payments of amount for a
\* COMPLETED one, amount - refundAmount for a REFUNDED one and 0 for any
\* other.
C24_LedgerConsistent ==
    \A o \in OrderIds :
        orders[o].exists => orders[o].paidAmount = LedgerSum(o, PaymentIds)

\* A refund next to a completion: payments of an order are created and
\* completed, then one refundPayment call and one completePayment call run
\* interleaved, step by step.
NoCallYet == \A k \in CallIds : calls[k].pc = "idle"

NoCallOf(op) == \A k \in CallIds : calls[k].op # op

NextConcurrentRefund ==
    \/ createOrder("c1", MaxAmount)
    \/ \E o \in OrderIds, a \in 1..MaxAmount : NoCallYet /\ createPayment(o, a)
    \/ \E p \in PaymentIds : NoCallYet /\ completePayment(p, NoAmount)
    \/ \E k \in CallIds, p \in PaymentIds, a \in {NoAmount} \cup 1..MaxAmount :
          NoCallOf("refundPayment") /\ refundPaymentLoad(k, p, a)
    \/ \E k \in CallIds : refundPaymentSave(k)
    \/ \E k \in CallIds : refundPaymentReadOrder(k)
    \/ \E k \in CallIds : refundPaymentWriteOrder(k)
    \/ \E k \in CallIds, p \in PaymentIds :
          NoCallOf("completePayment") /\ completePaymentLoad(k, p)
    \/ \E k \in CallIds : completePaymentSave(k)
    \/ \E k \in CallIds : completePaymentPostSave(k)
    \/ Tick

SpecConcurrentRefund == Init /\ [][NextConcurrentRefund]_vars

\* Concurrent assignments: assignReviewer calls on an order run interleaved,
\* step by step.
NextConcurrentAssign ==
    \/ \E c \in {"c1", "c2"}, t \in 1..MaxAmount : NoCallYet /\ createOrder(c, t)
    \/ \E k \in CallIds, o \in OrderIds, r \in {"r1", "r2", "r3", "c2"} :
          assignReviewerLoad(k, o, r)
    \/ \E k \in CallIds : assignReviewerSave(k)
    \/ \E k \in CallIds : assignReviewerNotify(k)
    \/ Tick

SpecConcurrentAssign == Init /\ [][NextConcurrentAssign]_vars

\* The slot query: consultations are booked, started and cancelled as time
\* passes, and the available slots of a reviewer are asked for.
NextSlots ==
    \/ createOrder("c1", 1)
    \/ \E o \in OrderIds, r \in {"r1", "r2"}, d \in DateArgs, n \in DurationArgs :
          scheduleConsultation(o, "c1", r, d, n)
    \/ \E c \in ConsultationIds : startConsultation(c, TRUE)
    \/ \E c \in ConsultationIds : cancelConsultation(c, TRUE)
    \/ \E r \in {"r1", "r2", "c1"}, d \in 0..MaxDate : getAvailableSlots(r, d)
    \/ Tick

SpecSlots == Init /\ [][NextSlots]_vars

\* A reviewer's calendar: the five ConsultationService operations that
\* book, move and end consultations, on the consultations of two reviewers.
NextCalendar ==
    \/ createOrder("c1", 1)
    \/ \E o \in OrderIds, r \in {"r1", "r2"}, d \in {2, MaxDate} :
          scheduleConsultation(o, "c1", r, d, DefaultDuration)
    \/ \E c \in ConsultationIds, d \in {MaxDate - 1, MaxDate} :
          rescheduleConsultation(c, d, "r1")
    \/ \E c \in ConsultationIds : startConsultation(c, TRUE)
    \/ \E c \in ConsultationIds : completeConsultation(c, TRUE)
    \/ \E c \in ConsultationIds : cancelConsultation(c, TRUE)
    \/ Tick

SpecCalendar == Init /\ [][NextCalendar]_vars

\* C25: no two SCHEDULED or IN_PROGRESS consultations of one reviewer have
\* intersecting [scheduledDate, scheduledDate + duration) intervals.
C25_NoDoubleBooking ==
    \A a, b \in ConsultationIds :
        (/\ a # b
         /\ Active(consultations[a])
         /\ Active(consultations[b])
         /\ consultations[a].reviewerId = consultations[b].reviewerId)
        => ~Overlap(consultations[a], consultations[b])

(* ========================= claims: payment ledger ====================== *)
\* C1: no order's paidAmount exceeds its totalAmount.
C1_PaidWithinTotal ==
    \A o \in OrderIds :
        orders[o].exists => orders[o].paidAmount <= orders[o].totalAmount

\* The step is refundPayment on an existing payment, asking for more than
\* the payment's amount.
RefundAboveAmount ==
    /\ res'.op = "refundPayment"
    /\ payments[res'.id].exists
    /\ res'.narg > payments[res'.id].amount

\* C3 (as stated): a refund request above the payment's amount fails with
\* InvalidAmount whatever the payment's status, and changes no payment and
\* no order.
C3_RefundAlwaysInvalidAmount ==
    [][RefundAboveAmount =>
         /\ res'.err = "InvalidAmount"
         /\ payments' = payments
         /\ orders' = orders]_vars

\* C3 (amended): a refund request above the payment's amount always fails,
\* with InvalidAmount when the payment is COMPLETED and with InvalidState
\* otherwise (the status is checked first), and changes no payment and no
\* order.
C3_RefundAboveAmountRejected ==
    [][RefundAboveAmount =>
         /\ res'.err = IF payments[res'.id].status = "COMPLETED"
                       THEN "InvalidAmount" ELSE "InvalidState"
         /\ payments' = payments
         /\ orders' = orders]_vars

\* C3 witness: a COMPLETED payment whose order was credited, after a refund
\* request above its amount was refused.
C3_Witness ==
    /\ res.op = "refundPayment"
    /\ res.err = "InvalidAmount"
    /\ res.narg > payments[res.id].amount
    /\ payments[res.id].status = "COMPLETED"
    /\ orders[payments[res.id].orderId].paidAmount > 0

\* C8: a successful refundPayment on a COMPLETED payment leaves it REFUNDED
\* with refundAmount r, the requested amount (the payment's amount when none
\* is requested), r not above the payment's amount, and the order's
\* paidAmount at max(0, paidAmount - r); on a payment that is not COMPLETED
\* it fails with InvalidState and changes no payment and no order.
C8_RefundEffect ==
    [][(res'.op = "refundPayment" /\ payments[res'.id].exists) =>
         LET p == payments[res'.id]
             r == IF res'.narg = NoAmount THEN p.amount ELSE res'.narg
             paid == orders[p.orderId].paidAmount
         IN /\ res'.err = "OK" =>
                 /\ p.status = "COMPLETED"
                 /\ payments'[res'.id].status = "REFUNDED"
                 /\ payments'[res'.id].refundAmount = r
                 /\ r <= p.amount
                 /\ orders'[p.orderId].paidAmount =
                        IF paid - r > 0 THEN paid - r ELSE 0
            /\ p.status # "COMPLETED" =>
                 /\ res'.err = "InvalidState"
                 /\ payments' = payments
                 /\ orders' = orders]_vars

\* C9: after a successful completePayment the payment is COMPLETED with
\* processedAt set and netAmount = amount - fee; completePayment on a
\* COMPLETED payment fails with AlreadyCompleted.
C9_CompleteEffect ==
    [][(res'.op = "completePayment" /\ payments[res'.id].exists) =>
         /\ res'.err = "OK" =>
              /\ payments'[res'.id].status = "COMPLETED"
              /\ payments'[res'.id].processedAt # 0
              /\ payments'[res'.id].netAmount =
                     payments'[res'.id].amount - payments'[res'.id].fee
         /\ payments[res'.id].status = "COMPLETED" =>
              res'.err = "AlreadyCompleted"]_vars
(* ======================= claims: document registry ===================== *)
\* C5: downloadDocument on an active document succeeds (the stored file
\* being there) and adds exactly 1 to downloadCount when the requester is
\* the order's customer or its reviewer, and is refused with Forbidden,
\* downloadCount unchanged, for every other requester, whether or not the
\* order has a reviewer.
C5_DownloadAuthorization ==
    [][(res'.op = "downloadDocument"
        /\ documents[res'.id].exists /\ documents[res'.id].isActive) =>
         LET d == documents[res'.id]
             o == orders[d.orderId]
             party == res'.sarg = o.customerId \/ res'.sarg = o.reviewerId
         IN /\ (party /\ res'.err # "FileMissing") =>
                 /\ res'.err = "OK"
                 /\ documents'[res'.id].downloadCount = d.downloadCount + 1
            /\ ~party =>
                 /\ res'.err = "Forbidden"
                 /\ documents' = documents]_vars

\* The step is uploadDocument with a file over the size limit or of a type
\* that, once normalised, is outside the allow-list.
UploadOfInvalidFile ==
    /\ res'.op = "uploadDocument"
    /\ \/ res'.narg > MaxFileSizeMiB
       \/ NormalizeFileType(res'.fileType) \notin AllowedFileTypes

\* An upload within the limits creates an active document never downloaded.
UploadOfValidFileCreates ==
    (/\ res'.op = "uploadDocument"
     /\ res'.narg <= MaxFileSizeMiB
     /\ NormalizeFileType(res'.fileType) \in AllowedFileTypes
     /\ orders[res'.orderId].exists
     /\ res'.sarg \in Users) =>
        /\ res'.err = "OK"
        /\ ~documents[res'.id].exists
        /\ documents'[res'.id].exists
        /\ documents'[res'.id].isActive
        /\ documents'[res'.id].downloadCount = 0

\* C11 (as stated): every upload whose fileSize exceeds 50 MiB or whose
\* fileType is outside the allow-list is rejected with InvalidFile, creating
\* no document and no notification; an upload within the limits for an
\* existing order and uploader creates a document with isActive = true and
\* downloadCount = 0.
C11_InvalidFileAlways ==
    [][/\ UploadOfInvalidFile =>
            /\ res'.err = "InvalidFile"
            /\ documents' = documents
            /\ notified' = <<>>
       /\ UploadOfValidFileCreates]_vars

\* C11 (amended): such an upload is always rejected, creating no document
\* and no notification, with InvalidFile when the order and the uploader
\* exist and with NotFound otherwise (they are looked up first); an upload
\* within the limits for an existing order and uploader creates a document
\* with isActive = true and downloadCount = 0.
C11_InvalidFileRejected ==
    [][/\ UploadOfInvalidFile =>
            /\ res'.err = IF orders[res'.orderId].exists /\ res'.sarg \in Users
                          THEN "InvalidFile" ELSE "NotFound"
            /\ documents' = documents
            /\ notified' = <<>>
       /\ UploadOfValidFileCreates]_vars

\* C11 witness: an upload above 50 MiB for an existing order and uploader
\* was refused as an invalid file.
C11_Witness ==
    /\ res.op = "uploadDocument"
    /\ res.err = "InvalidFile"
    /\ res.narg > MaxFileSizeMiB
    /\ orders[res.orderId].exists
    /\ res.sarg \in Users
    /\ \A d \in DocumentIds : ~documents[d].exists

\* C15: a successful uploadDocument notifies only the order's other party:
\* the uploader is never among the notified, the customer is notified when
\* the uploader is the order's reviewer, and the reviewer when the uploader
\* is the order's customer.
C15_NotifiesOtherParty ==
    [][(res'.op = "uploadDocument" /\ res'.err = "OK") =>
         LET o == orders[res'.orderId]
             to == {notified'[i].userId : i \in DOMAIN notified'}
         IN /\ res'.sarg \notin to
            /\ (o.reviewerId # NULL /\ res'.sarg = o.reviewerId)
                    => to = {o.customerId}
            /\ (o.reviewerId # NULL /\ res'.sarg = o.customerId)
                    => to = {o.reviewerId}]_vars

\* C16: deleteDocument soft-deletes the document only for its uploader, the
\* order's customer or the order's reviewer; for every other user, whether
\* or not the order has a reviewer, it fails with Forbidden and leaves the
\* documents unchanged.
C16_DeleteAuthorization ==
    [][(res'.op = "deleteDocument" /\ documents[res'.id].exists) =>
         LET d == documents[res'.id]
             o == orders[d.orderId]
             allowed == \/ res'.sarg = d.uploadedBy
                        \/ res'.sarg = o.customerId
                        \/ res'.sarg = o.reviewerId
         IN /\ allowed => /\ res'.err = "OK"
                          /\ ~documents'[res'.id].isActive
            /\ ~allowed => /\ res'.err = "Forbidden"
                           /\ documents' = documents]_vars

\* C4: a schedule request for a reviewer whose SCHEDULED or IN_PROGRESS
\* consultation occupies an interval overlapping the requested
\* [scheduledDate, scheduledDate + duration) fails and creates nothing: a
\* schedule call that creates a consultation creates one that overlaps no
\* active consultation of the same reviewer.
C4_OverlapRejected ==
    [][(res'.op \in {"scheduleConsultation", "bookConsultation"}
        /\ res'.err = "OK") =>
         \A c \in ConsultationIds :
            (/\ c # res'.id
             /\ Active(consultations[c])
             /\ consultations[c].reviewerId = consultations'[res'.id].reviewerId)
            => ~Overlap(consultations[c], consultations'[res'.id])]_vars

\* C7: whatever operation writes a consultation, its status changes only
\* SCHEDULED -> IN_PROGRESS (start), IN_PROGRESS -> COMPLETED (complete) and
\* SCHEDULED -> CANCELLED (cancel); rescheduling keeps SCHEDULED.
C7_StatusTransitions ==
    [][\A c \in ConsultationIds :
         (consultations[c].exists
          /\ consultations'[c].status # consultations[c].status) =>
            LET from == consultations[c].status
                to == consultations'[c].status
            IN \/ /\ from = "SCHEDULED" /\ to = "IN_PROGRESS"
                  /\ res'.op = "startConsultation"
               \/ /\ from = "IN_PROGRESS" /\ to = "COMPLETED"
                  /\ res'.op = "completeConsultation"
               \/ /\ from = "SCHEDULED" /\ to = "CANCELLED"
                  /\ res'.op \in {"cancelConsultation", "deleteConsultation"}]_vars

\* C14: each successful startConsultation, completeConsultation,
\* cancelConsultation and rescheduleConsultation creates a notification for
\* the consultation's customer and one for its reviewer.
C14_TransitionsNotifyBoth ==
    [][(/\ res'.op \in {"startConsultation", "completeConsultation",
                        "cancelConsultation", "rescheduleConsultation"}
        /\ res'.err = "OK") =>
         LET to == {notified'[i].userId : i \in DOMAIN notified'} IN
         /\ consultations[res'.id].customerId \in to
         /\ consultations[res'.id].reviewerId \in to]_vars

\* C19: a successful rescheduleConsultation appends to rescheduleHistory
\* exactly one entry, whose previousDate is the old scheduledDate, keeping
\* the earlier entries as they were, sets scheduledDate to the new date,
\* keeps the status SCHEDULED and resets the three reminder flags; it
\* succeeds on a SCHEDULED consultation with a future date, and on any
\* other consultation or date it fails and changes no consultation.
C19_RescheduleEffect ==
    [][(res'.op = "rescheduleConsultation" /\ consultations[res'.id].exists) =>
         LET c == consultations[res'.id]
             d == consultations'[res'.id]
         IN IF c.status = "SCHEDULED" /\ res'.narg > clock
            THEN /\ res'.err = "OK"
                 /\ Len(d.rescheduleHistory) = Len(c.rescheduleHistory) + 1
                 /\ SubSeq(d.rescheduleHistory, 1, Len(c.rescheduleHistory))
                       = c.rescheduleHistory
                 /\ d.rescheduleHistory[Len(d.rescheduleHistory)].previousDate
                       = c.scheduledDate
                 /\ d.scheduledDate = res'.narg
                 /\ d.status = "SCHEDULED"
                 /\ d.reminders = NoReminders
                 /\ \A x \in ConsultationIds \ {res'.id} :
                       consultations'[x] = consultations[x]
            ELSE /\ res'.err # "OK"
                 /\ consultations' = consultations]_vars

\* C19 witness: a consultation was moved a second time: both old dates are
\* logged, oldest first, and the reminder flags are reset.
C19_Witness ==
    /\ res.op = "rescheduleConsultation"
    /\ res.err = "OK"
    /\ Len(consultations[res.id].rescheduleHistory) = 2
    /\ consultations[res.id].rescheduleHistory[1].previousDate
          # consultations[res.id].rescheduleHistory[2].previousDate
    /\ consultations[res.id].reminders = NoReminders
    /\ consultations[res.id].scheduledDate = res.narg

(* ===================== claims: concurrent payments ===================== *)
RECURSIVE SumOfAmounts(_)
SumOfAmounts(ks) ==
    IF ks = {} THEN 0
    ELSE LET k == CHOOSE x \in ks : TRUE
         IN calls[k].doc.amount + SumOfAmounts(ks \ {k})

\* The completePayment calls on payments of order o that ran to success.
CompletedCalls(o) ==
    {k \in CallIds : /\ calls[k].op = "completePayment"
                     /\ calls[k].pc = "done" /\ calls[k].err = "OK"
                     /\ calls[k].doc.orderId = o}

\* C20: when completePayment calls for distinct PENDING payments of one
\* order have run concurrently to their end, whatever the interleaving, the
\* order's paidAmount is its prior value (0) plus the sum of the amounts of
\* those payments: no increment is lost.
C20_NoLostIncrement ==
    \A o \in OrderIds :
        (/\ orders[o].exists
         /\ \A k \in CallIds : ~InFlight(k)
         /\ \A j, k \in CompletedCalls(o) : j # k => calls[j].id # calls[k].id)
        => orders[o].paidAmount = SumOfAmounts(CompletedCalls(o))

\* C20 witness: two calls for two payments of one order have both returned,
\* one of them having loaded its payment while the other was in flight.
C20_Witness ==
    \E j, k \in CallIds :
        /\ j # k
        /\ {j, k} \subseteq CompletedCalls(calls[j].doc.orderId)
        /\ calls[j].id # calls[k].id
        /\ calls[k].overlapped
        /\ \A x \in CallIds : ~InFlight(x)
        /\ orders[calls[j].doc.orderId].paidAmount
              = calls[j].doc.amount + calls[k].doc.amount

\* C26: of two completePayment calls for one PENDING payment that ran
\* concurrently to their end, at most one has succeeded, and the order's
\* paidAmount has been incremented by the payment's amount at most once.
C26_CompletesOnce ==
    \A j, k \in CallIds :
        (/\ j # k
         /\ calls[j].op = "completePayment" /\ calls[k].op = "completePayment"
         /\ calls[j].pc = "done" /\ calls[k].pc = "done"
         /\ calls[j].id = calls[k].id
         /\ payments[calls[j].id].exists)
        => /\ ~(calls[j].err = "OK" /\ calls[k].err = "OK")
           /\ LET p == payments[calls[j].id] IN
              orders[p.orderId].paidAmount <= p.amount

\* The call k that ran op on id to success.
Succeeded(k, op) ==
    calls[k].op = op /\ calls[k].pc = "done" /\ calls[k].err = "OK"

\* C27: when a refundPayment call and a completePayment call for another
\* payment of the same order have run concurrently to their end, the order's
\* paidAmount is its prior value plus the completed amount minus the
\* refunded amount, which is the sum over the order's payments of what each
\* has added and not given back.
C27_RefundKeepsIncrement ==
    \A j, k \in CallIds :
        (/\ Succeeded(j, "refundPayment")
         /\ Succeeded(k, "completePayment")
         /\ calls[j].id # calls[k].id
         /\ calls[j].doc.orderId = calls[k].doc.orderId)
        => LET o == calls[j].doc.orderId IN
           orders[o].paidAmount = LedgerSum(o, PaymentIds)

\* C28: of two assignReviewer calls with different valid reviewers that ran
\* concurrently on one PENDING_REVIEW order, at most one has succeeded, and
\* only the reviewer stored on the order has been sent 'New Order
\* Assignment'.
C28_AssignsOnce ==
    \A j, k \in CallIds :
        (/\ j # k
         /\ calls[j].op = "assignReviewer" /\ calls[j].pc = "done"
         /\ calls[k].op = "assignReviewer" /\ calls[k].pc = "done"
         /\ calls[j].id = calls[k].id
         /\ calls[j].sarg # calls[k].sarg
         /\ ValidReviewer(calls[j].sarg) /\ ValidReviewer(calls[k].sarg))
        => /\ ~(calls[j].err = "OK" /\ calls[k].err = "OK")
           /\ \A x \in {j, k} : \A i \in 1..Len(calls[x].notices) :
                 calls[x].notices[i].title = "New Order Assignment"
                 => calls[x].notices[i].userId = orders[calls[j].id].reviewerId

\* C22: every slot the available-slots query returns starts on the hour at
\* 9, 10, 11, 14, 15, 16 or 17 o'clock on a Monday to Friday of the seven
\* days from the start date, is not in the past, and the hour from it meets
\* no SCHEDULED or IN_PROGRESS consultation of that reviewer.
C22_SlotsAreFree ==
    (res.op = "getAvailableSlots" /\ res.err = "OK") =>
       LET startDate == IF res.narg # 0 THEN res.narg ELSE clock IN
       \A slot \in res.slots :
          /\ \E hour \in WorkingHours :
                (slot + EpochHalfHour) % HalfHoursPerDay = 2 * hour
          /\ getDay(slot) \in 1..5
          /\ DayIndex(slot) - DayIndex(startDate) \in 0..(WindowDays - 1)
          /\ slot >= clock
          /\ \A c \in ConsultationIds :
                (Active(consultations[c]) /\ consultations[c].reviewerId = res.sarg)
                => ~Overlap(consultations[c],
                            [scheduledDate |-> slot, duration |-> SlotLength])

\* C30: findForReminders returns only SCHEDULED consultations whose reminder
\* of the asked kind is not marked sent; a consultation that sendReminder
\* has marked is not returned for that kind, and comes back only by a
\* reschedule of it; IN_PROGRESS, COMPLETED and CANCELLED consultations are
\* never returned.
C30_RemindedOnce ==
    [][/\ \A t \in ReminderTypes : \A c \in findForReminders(ReminderMinutes(t))' :
             /\ consultations'[c].status = "SCHEDULED"
             /\ ~consultations'[c].reminders[reminderField(ReminderMinutes(t))]
       /\ \A t \in ReminderTypes :
             (res'.op = "sendReminder" /\ res'.sarg = t /\ res'.err = "OK")
             => res'.id \notin findForReminders(ReminderMinutes(t))'
       /\ \A t \in ReminderTypes : \A c \in ConsultationIds :
             (/\ consultations[c].exists
              /\ consultations[c].reminders[reminderField(ReminderMinutes(t))]
              /\ c \in findForReminders(ReminderMinutes(t))')
             => /\ res'.op = "rescheduleConsultation"
                /\ res'.id = c
                /\ res'.err = "OK"]_vars

====
